---- MODULE Spec2Model ----
(***************************************************************************)
(* Model of AgentProject's asynchronous core:                              *)
(*   core/event_bus.py      EventBus (subscribe, publish, publish_nowait,  *)
(*                          wait_for)                                      *)
(*   core/consciousness.py  ConsciousnessEngine (initialize, shutdown,     *)
(*                          request, the three supervised loops)           *)
(* and of the objects the engine is built on:                              *)
(*   core/di.py             DIContainer (bind, get, clear)                 *)
(*   core/memory.py         MemoryManager (store_interaction,              *)
(*                          retrieve_context)                              *)
(*   core/model_manager.py  ModelManager (load_model, unload_model,        *)
(*                          remove_model, hot_swap, infer)                 *)
(*                                                                         *)
(* Scheduling follows asyncio: one thread, a FIFO queue of runnable tasks  *)
(* (`ready`), and a task that runs without interruption from one           *)
(* suspension point to the next.  An uncontended asyncio.Lock is acquired  *)
(* without suspending, and the bus never awaits while holding its lock,    *)
(* so every `async with self._lock` block is part of the running step.     *)
(* Every action below is therefore one such uninterrupted step: of a task  *)
(* taken from `ready`, or of a caller's coroutine (the callers of the bus  *)
(* and of the engine are the environment).                                 *)
(***************************************************************************)
EXTENDS Integers, Sequences, FiniteSets, TLC

VARIABLES
  handlers,   \* EventBus._handlers: the subscription list
  nsub,       \* number of subscribe calls so far (registration counter)
  pubs,       \* the publish() calls made so far, each with its position
  waits,      \* the wait_for() calls made so far, each with its future
  reqs,       \* the request() calls made so far
  ready,      \* the event loop's FIFO queue of runnable tasks
  loops,      \* the supervised loop tasks ever created by initialize()
  tasks_,     \* ConsciousnessEngine._tasks (indices into loops)
  stop,       \* ConsciousnessEngine._stop_event
  sd,         \* the shutdown() call in progress, if any
  eng,        \* lifecycle counters of the engine (calls made so far)
  di,         \* a DIContainer: its bindings, its singletons, the gets made
  mem,        \* a MemoryManager: its interactions, the contexts retrieved
  mm          \* a ModelManager: its models, its metadata, the calls in progress

vars ==
  <<handlers, nsub, pubs, waits, reqs, ready, loops, tasks_, stop, sd, eng, di, mem, mm>>

busVars == <<handlers, nsub, pubs, waits, reqs, ready>>
engVars == <<loops, tasks_, stop, sd, eng>>
libVars == <<di, mem, mm>>

-----------------------------------------------------------------------------
(* Bounds of the model *)

MaxSubs == 2      \* subscribe calls made by the callers of the bus
MaxPubs == 1      \* publish calls made by the callers of the bus (Spec)
MaxOverlap == 2   \* publish calls made by the callers of the bus (SpecOverlap)
MaxWaits == 2     \* wait_for calls made by the callers of the bus (SpecWait)
MaxWaitPubs == 2  \* publish_nowait calls made by the callers of the bus (SpecWait)
MaxLatePubs == 2  \* publish_nowait calls made by the callers of the bus (SpecLate)
MaxDiCalls == 6   \* bind, get and clear calls made on the container (SpecDI)
MaxStores == 2    \* store_interaction calls (SpecMemory)
MaxRetrieves == 1 \* retrieve_context calls (SpecMemory)
MaxLimit == 4     \* the largest limit_tokens passed (SpecMemory)
MaxModelCalls == 2 \* calls made on the model manager (SpecModels)
MaxWiredReqs == 2  \* request() calls (SpecWired)
MaxAnswerInits == 2 \* initialize() calls (SpecAnswer)
MaxReqs == 2      \* request() calls made by the callers of the engine (SpecReq)
MaxResponses == 1 \* responses published by the callers of the bus (SpecReq)
MaxLateReqs == 1      \* request() calls (SpecReqOrder)
MaxLateResponses == 2 \* responses published by the callers of the bus (SpecReqOrder)
MaxTimedReqs == 1       \* request() calls (SpecTimeout)
MaxStrayResponses == 1  \* responses published by the callers of the bus (SpecTimeout)
MaxReplyReqs == 2       \* request() calls (SpecReply)
MaxCtxPubs == 1         \* publish_nowait calls made on the event loop (SpecContexts)
MaxInfers == 1          \* ModelManager.infer calls made on executor threads (SpecContexts)
MaxReSubs == 2          \* subscribe calls made by the callers of the bus (SpecReentrant)
MaxRePubs == 1          \* publish calls made by the callers of the bus (SpecReentrant)
MaxNextPubs == 2        \* publish calls made by the callers of the bus (SpecReentrantNext)
MaxSeriesSubs == 2      \* subscribe calls made by the callers of the bus (SpecSeries)
MaxSeriesPubs == 2      \* publish calls made by the callers of the bus (SpecSeries)
MaxInits == 1     \* initialize() calls made by the owner of the engine (SpecEngine)
MaxShutdowns == 2 \* shutdown() calls made by the owner of the engine (SpecEngine)
MaxWakes == 1     \* sleeps of the loops that elapse (SpecEngine)
MaxRestartInits == 2     \* initialize() calls (SpecRestart)
MaxRestartShutdowns == 1 \* shutdown() calls (SpecRestart)
MaxFaultShutdowns == 1 \* shutdown() calls (SpecFaults)
MaxFaultWakes == 1     \* sleeps of the loops that elapse (SpecFaults)
MaxLoopFaults == 1     \* calls of memory.get_pending_tasks that raise (SpecFaults)

-----------------------------------------------------------------------------
(* Event names and patterns are sequences of characters. *)

E_ab == <<"a", ".", "b">>
E_ac == <<"a", ".", "c">>
P_aStar == <<"a", ".", "*">>
E_xdone == <<"x", ".", "d">>
E_response == <<"c", ".", "r", "s">>
E_request == <<"c", ".", "r", "q">>
E_model_infer == <<"m", ".", "i">>
E_model_error == <<"m", ".", "e">>
E_error == <<"c", ".", "e">>
E_initialized == <<"c", ".", "i">>
E_shutdown == <<"c", ".", "s", "d">>
E_task == <<"c", ".", "t">>
E_check_calendar == <<"c", ".", "c", "c">>
E_optimize == <<"c", ".", "o">>
E_memory_pruned == <<"c", ".", "m", "p">>

\* A payload is a dict with a "cid" and a value; cid 0 stands for a payload that
\* carries no correlation id.
Payload(cid, val) == [cid |-> cid, val |-> val]
NoPayload == [cid |-> 0, val |-> 0]

\* fnmatch.fnmatch(event, pattern) on a case-sensitive platform: '*' matches
\* any run of characters, '?' any one character, anything else itself.
RECURSIVE FnMatch(_, _)
FnMatch(name, pat) ==
  IF pat = <<>> THEN name = <<>>
  ELSE IF Head(pat) = "*"
       THEN FnMatch(name, Tail(pat)) \/ (name # <<>> /\ FnMatch(Tail(name), pat))
  ELSE IF name = <<>> THEN FALSE
  ELSE (Head(pat) = "?" \/ Head(pat) = Head(name)) /\ FnMatch(Tail(name), Tail(pat))

-----------------------------------------------------------------------------
(* subscribe: append, then a stable sort on the key -priority *)

SortKeyAscending(sub) == sub.prio

SortKey(sub) == 0 - sub.prio

\* x inserted behind every element whose key is not greater than its own
RECURSIVE InsertStable(_, _)
InsertStable(sorted, x) ==
  IF sorted = <<>> THEN <<x>>
  ELSE IF SortKey(Head(sorted)) <= SortKey(x)
       THEN <<Head(sorted)>> \o InsertStable(Tail(sorted), x)
       ELSE <<x>> \o sorted

\* list.sort(key=...): a stable sort
RECURSIVE StableSort(_)
StableSort(s) ==
  IF s = <<>> THEN <<>>
  ELSE CHOOSE t \in {InsertStable(v, s[Len(s)]) : v \in {StableSort(SubSeq(s, 1, Len(s) - 1))}} :
         TRUE

\* A subscription is the tuple (pattern, handler, priority, once); `id` is the
\* number of the subscribe call that made it (history, read by no operation).
Subscription(pat, h, prio, once, id) ==
  [pat |-> pat, h |-> h, prio |-> prio, once |-> once, id |-> id]

\* EventBus.subscribe, the body under the lock
Subscribed(hs, sub) == StableSort(Append(hs, sub))

-----------------------------------------------------------------------------
(* Handlers.  A handler is named <<kind, n>>; its kind is what it does when   *)
(* invoked:                                                                   *)
(*   "plain"  returns without suspending                                      *)
(*   "raise"  raises an Exception                                             *)
(*   "slow"   suspends (awaits I/O, as RefactorEngine._on_optimize does) and  *)
(*            returns when resumed                                            *)
(*   "chk"    the _checker closure of wait_for call number n                  *)
(*   "reply"  answers the request it is given at once: it calls              *)
(*            publish_nowait with a response that carries the request's cid  *)
(*   "sub"    calls `await bus.subscribe(...)` with the arguments Created(n)  *)
(*   "emit"   calls bus.publish_nowait on another event name                  *)
(*   "pub"    calls `await bus.publish(...)` on another event name            *)

Kind(h) == h[1]

\* the predicates passed to wait_for: lambda _: True, payload value == x, and
\* request()'s  isinstance(res, dict) and res.get("cid") == x
Condition(cond, payload) ==
  CASE cond.k = "any" -> TRUE
    [] cond.k = "val" -> payload.val = cond.x
    [] cond.k = "cid" -> payload.cid # 0 /\ payload.cid = cond.x

CheckerAcceptsAnyPayload(wr, payload) == wr.fut = "pending"

CheckerAcceptsWhenDone(wr, payload) == Condition(wr.cond, payload)

\* _checker's test: condition(payload) and not fut.done()
CheckerAccepts(wr, payload) == Condition(wr.cond, payload) /\ wr.fut = "pending"

\* The state a step works on: h the subscription list, n the registration
\* counter, p the publish calls, w the wait_for calls, r the ready queue, and
\* lk, whether EventBus._lock is held.  No `async with self._lock` block holds
\* a suspension point, so the lock is free whenever a step begins.
ExecState ==
  [h |-> handlers, n |-> nsub, p |-> pubs, w |-> waits, r |-> ready, lk |-> FALSE]

\* wait_for._checker(payload): fut.set_result(payload) wakes the task that
\* awaits the future, unless the timeout has woken it already.
Checker(s, w, payload) ==
  IF CheckerAccepts(s.w[w], payload)
  THEN [s EXCEPT !.w[w].fut = "result", !.w[w].res = payload,
                 !.r = IF s.w[w].st = "waiting" /\ ~s.w[w].fired
                       THEN Append(@, <<"wait", w>>) ELSE @]
  ELSE s

\* History: the call's record of the subscriptions it has invoked, in order,
\* and of the payload it passed to each.
Logged(s, p) ==
  [s EXCEPT !.p[p].inv = Append(@, s.p[p].snap[s.p[p].i].id),
            !.p[p].args = Append(@, s.p[p].payload)]

\* A coroutine that reaches `async with self._lock` while the lock is held
\* waits for it; `p` is the publish call that is, or whose handler is, that
\* coroutine.
Blocked(s, p) == [s EXCEPT !.p[p].st = "blocked"]

FinishPubKeepingOnce(s, p) == [s EXCEPT !.p[p].st = "done"]

\* The last step of publish: the once-subscriptions it invoked are removed,
\* by their (pattern, handler) pair, under the lock.
FinishPub(s, p) ==
  LET rem == s.p[p].rem
      kept == SelectSeq(s.h, LAMBDA x: \A k \in 1..Len(rem): rem[k] # <<x.pat, x.h>>)
  IN IF rem # <<>> /\ s.lk THEN Blocked(s, p)
     ELSE [s EXCEPT !.h = IF rem # <<>> THEN kept ELSE @, !.p[p].st = "done"]

RECURSIVE RunPub(_, _)

AfterHandlerLeaveLoop(s, p) ==
  LET pr == s.p[p]
      sub == pr.snap[pr.i]
  IN RunPub([s EXCEPT !.p[p].rem = IF sub.once THEN Append(@, <<sub.pat, sub.h>>) ELSE @,
                      !.p[p].i = Len(pr.snap) + 1,
                      !.p[p].st = "run"], p)

\* After the handler has returned or failed: `if once: to_remove.append(...)`,
\* then the next subscription of the snapshot.
AfterHandler(s, p) ==
  LET pr == s.p[p]
      sub == pr.snap[pr.i]
  IN RunPub([s EXCEPT !.p[p].rem = IF sub.once THEN Append(@, <<sub.pat, sub.h>>) ELSE @,
                      !.p[p].i = pr.i + 1,
                      !.p[p].st = "run"], p)

\* A fault that leaves publish: the call ends there, with the fault.
PropagateFault(s, p) == [s EXCEPT !.p[p].st = "raised"]

\* `except Exception: pass`
OnHandlerFault(s, p) == AfterHandler(s, p)

\* A publish call: its arguments, its snapshot `snap` of the subscription
\* list, its position `i` in it, its `to_remove` list `rem`, the publish call
\* `par` whose handler awaits it (0: none), and where it stands: "new" (a task
\* not yet run), "run", "susp" (in a handler that is suspended), "nested" (in
\* a handler that awaits a publish call of its own), "woken", "done"
\* (returned), "raised", "blocked" (waiting for the lock), "refused"
\* (create_task raised RuntimeError and the coroutine was never run).
\* History: `inv` and `args`, see Logged; `src`, the supervised loop that made the call
\* (0: any other caller); `n0`, the number of subscribe calls that had
\* returned when the call took its snapshot; `made`, the subscriptions its
\* handlers registered; `outs`, for each _on_request handler it has invoked,
\* how the infer call of the handler ended.
NewPub(ev, payload) ==
  [ev |-> ev, payload |-> payload, snap |-> <<>>, i |-> 0, rem |-> <<>>, st |-> "new",
   par |-> 0, inv |-> <<>>, args |-> <<>>, src |-> 0, n0 |-> 0, made |-> <<>>, outs |-> <<>>]

\* asyncio.create_task(self.publish(event, payload)): the call is queued
Spawned(s, ev, payload) ==
  [s EXCEPT !.p = Append(@, NewPub(ev, payload)),
            !.r = Append(@, <<"pub", Len(s.p) + 1>>)]

\* A handler of the request event that answers without suspending:
\* publish_nowait("consciousness.response", {"cid": cid, "result": ...})
Replied(s, payload) == Spawned(s, E_response, Payload(payload.cid, 1))

\* History kept for each wait_for call: the first publish call that started
\* while the wait was registered and its deadline had not passed, on a matching
\* event name and with a payload its predicate accepts.
RECURSIVE NoteAccepted(_, _, _, _)
NoteAccepted(ws, p, ev, payload) ==
  IF ws = <<>> THEN <<>>
  ELSE LET wr == Head(ws)
           first == /\ wr.st = "waiting" /\ ~wr.fired /\ wr.acc = 0
                    /\ FnMatch(ev, wr.ev) /\ Condition(wr.cond, payload)
       IN <<IF first THEN [wr EXCEPT !.acc = p] ELSE wr>>
          \o NoteAccepted(Tail(ws), p, ev, payload)

SnapshotKeepingLock(s, p) == [s EXCEPT !.p[p].snap = s.h, !.p[p].n0 = s.n, !.lk = TRUE]

\* `async with self._lock: handlers = list(self._handlers)`: the lock is
\* released where the block ends, before the loop over the copy
Snapshot(s, p) == [s EXCEPT !.p[p].snap = s.h, !.p[p].n0 = s.n]

\* publish, from its first line: the snapshot under the lock, then the loop
StartPub(s, p) ==
  IF s.lk THEN Blocked(s, p)
  ELSE RunPub([Snapshot(s, p) EXCEPT !.p[p].i = 1, !.p[p].st = "run",
                                     !.w = NoteAccepted(@, p, s.p[p].ev, s.p[p].payload)], p)

\* What the handler <<"sub", n>> registers: the pattern and the once flag;
\* the handler it registers is one that other subscriptions may name too.
Created(n) ==
  [pat |-> IF n \in {1, 2} THEN P_aStar ELSE E_xdone, h |-> <<"plain", 1>>,
   once |-> n \in {2, 4}]

SubscribedIntoDispatch(s, p, a) ==
  LET sub == Subscription(a.pat, a.h, 0, a.once, s.n + 1)
  IN [s EXCEPT !.h = Subscribed(@, sub), !.n = @ + 1, !.p[p].made = Append(@, sub),
               !.p[p].snap = Append(@, sub)]

\* A handler of publish call p calls `await bus.subscribe(pat, h, once=once)`
\* (priority 0, the default): the body of subscribe, under the lock
HandlerSubscribed(s, p, a) ==
  LET sub == Subscription(a.pat, a.h, 0, a.once, s.n + 1)
  IN [s EXCEPT !.h = Subscribed(@, sub), !.n = @ + 1, !.p[p].made = Append(@, sub)]

\* A handler of publish call p calls `await bus.publish("x.d", payload)`: the
\* nested call runs inside the handler, from its first line
NestedPublish(s, p) ==
  LET q == Len(s.p) + 1
      child == [NewPub(E_xdone, s.p[p].payload) EXCEPT !.par = p]
  IN StartPub([s EXCEPT !.p = Append(@, child), !.p[p].st = "nested"], q)

\* ConsciousnessEngine._on_request, up to `await loop.run_in_executor(...)`:
\* self.memory.retrieve_context(limit_tokens=1024) is called outside any `try`
\* (the text it returns only goes into the prompt), so its fault leaves the
\* handler; otherwise the handler suspends until the executor has run infer.
OnRequest(s, p) ==
  IF mem.down THEN OnHandlerFault(s, p) ELSE [s EXCEPT !.p[p].st = "exec"]

\* `await handler(payload)` for the subscription at the call's position
InvokeHandler(s, p) ==
  LET pr == s.p[p]
      sub == pr.snap[pr.i]
      k == Kind(sub.h)
      t == Logged(s, p)
  IN CASE k = "plain" -> AfterHandler(t, p)
       [] k = "raise" -> OnHandlerFault(t, p)
       [] k = "slow"  -> [t EXCEPT !.p[p].st = "susp"]
       [] k = "chk"   -> AfterHandler(Checker(t, sub.h[2], pr.payload), p)
       [] k = "reply" -> AfterHandler(Replied(t, pr.payload), p)
       [] k = "sub"   -> IF t.lk THEN Blocked(t, p)
                         ELSE AfterHandler(HandlerSubscribed(t, p, Created(sub.h[2])), p)
       [] k = "emit"  -> AfterHandler(Spawned(t, E_xdone, pr.payload), p)
       [] k = "pub"   -> NestedPublish(t, p)
       [] k = "onreq" -> OnRequest(t, p)

\* publish returns: to its caller or, for a call made by a handler, into that
\* handler, which returns in turn
PubReturns(s, p) ==
  LET t == FinishPub(s, p)
  IN IF s.p[p].par # 0 /\ t.p[p].st = "done" THEN AfterHandler(t, s.p[p].par) ELSE t

\* One iteration of the loop of publish over its snapshot
PubLoop(s, p) ==
  LET pr == s.p[p] IN
  IF pr.i > Len(pr.snap) THEN PubReturns(s, p)
  ELSE IF FnMatch(pr.ev, pr.snap[pr.i].pat) THEN InvokeHandler(s, p)
  ELSE RunPub([s EXCEPT !.p[p].i = pr.i + 1], p)

\* The loop of publish, run until a handler suspends or the call ends.  (The
\* state is bound to a value before the iteration reads it.)
RunPub(s, p) == CHOOSE t \in {PubLoop(v, p) : v \in {s}} : TRUE

Install(s) ==
  /\ handlers' = s.h
  /\ nsub' = s.n
  /\ pubs' = s.p
  /\ waits' = s.w
  /\ ready' = s.r

-----------------------------------------------------------------------------
(* The bus and its callers *)

Patterns == {P_aStar, E_ac}
Events == {E_ab}
Priorities == {5, 10}
Handlers == {<<"plain", 1>>, <<"raise", 1>>, <<"slow", 1>>}
BusPayloads == {Payload(0, 1)}

\* The types bound in the container
Types == {"A", "B"}

\* DIContainer.__init__: no binding (`b`: the scope and the factory of each
\* type, "none": not bound), no singleton (`s`: the instance of each type, 0:
\* none).  History: `n`, the instances the factories have made; `ep`, the
\* bind and clear calls that concerned each type; `gets`, the get calls.
NewContainer ==
  [b |-> [t \in Types |-> [scope |-> "none", f |-> 0]],
   s |-> [t \in Types |-> 0],
   n |-> 0,
   ep |-> [t \in Types |-> 0],
   gets |-> <<>>]

\* MemoryManager.__init__: an empty interactions table; `down`: the database
\* refuses its statements (sqlite3 raises).  History: `got`, the
\* retrieve_context calls.
NewMemory == [rows |-> <<>>, got |-> <<>>, down |-> FALSE]

\* The models whose files are in models_dir
Registered == {"a", "b"}

\* ModelManager.__init__: self._models = {"default": EchoModel()}, and the
\* metadata of the models discover_models found.  `ops`: the calls in
\* progress, one for each thread.
NewModelManager == [models |-> {"default"}, meta |-> Registered, calls |-> <<>>]

EngineIdle ==
  /\ loops = <<>>
  /\ tasks_ = <<>>
  /\ stop = FALSE
  /\ sd = [st |-> "idle", gathered |-> <<>>]
  /\ eng = [inits |-> 0, shutdowns |-> 0, wakes |-> 0, faults |-> 0]

\* EventBus.__init__ (and ConsciousnessEngine.__init__): nothing subscribed,
\* nothing running
Init ==
  /\ handlers = <<>>
  /\ nsub = 0
  /\ pubs = <<>>
  /\ waits = <<>>
  /\ reqs = <<>>
  /\ ready = <<>>
  /\ EngineIdle
  /\ di = NewContainer
  /\ mem = NewMemory
  /\ mm = NewModelManager

\* await bus.subscribe(pattern, handler, priority, once), by a caller
Subscribe ==
  /\ nsub < MaxSubs
  /\ \E pat \in Patterns, h \in Handlers, prio \in Priorities, once \in BOOLEAN :
       handlers' = Subscribed(handlers, Subscription(pat, h, prio, once, nsub + 1))
  /\ nsub' = nsub + 1
  /\ UNCHANGED <<pubs, waits, reqs, ready>>
  /\ UNCHANGED <<engVars, libVars>>

\* await bus.publish(event, payload), by a caller: the call starts at once
Publish(maxPubs, evs, payloads) ==
  /\ Len(pubs) - Len(reqs) < maxPubs
  /\ \E ev \in evs, payload \in payloads :
       LET s == [ExecState EXCEPT !.p = Append(@, NewPub(ev, payload))]
       IN \E t \in {StartPub(s, Len(pubs) + 1)} : Install(t)
  /\ UNCHANGED reqs
  /\ UNCHANGED <<engVars, libVars>>

\* What a suspended handler awaits completes: its publish call is runnable again.
HandlerWakes ==
  /\ \E p \in 1..Len(pubs) :
       /\ pubs[p].st = "susp"
       /\ pubs' = [pubs EXCEPT ![p].st = "woken"]
       /\ ready' = Append(ready, <<"pub", p>>)
  /\ UNCHANGED <<handlers, nsub, waits, reqs>>
  /\ UNCHANGED <<engVars, libVars>>

\* The event loop runs the next task, a publish call: from its first line if
\* it is new, from the handler's return if it was suspended in a handler.
RunPubTask ==
  /\ ready # <<>>
  /\ Head(ready)[1] = "pub"
  /\ LET p == Head(ready)[2]
         s == [ExecState EXCEPT !.r = Tail(ready)]
     IN \E t \in {IF pubs[p].st = "new" THEN StartPub(s, p) ELSE AfterHandler(s, p)} :
          Install(t)
  /\ UNCHANGED reqs
  /\ UNCHANGED <<engVars, libVars>>

BusNext(maxPubs) ==
  Subscribe \/ Publish(maxPubs, Events, BusPayloads) \/ HandlerWakes \/ RunPubTask

\* The bus with callers that subscribe and publish
Spec == Init /\ [][BusNext(MaxPubs)]_vars

\* The same, with enough publish calls for two of them to overlap
SpecOverlap == Init /\ [][BusNext(MaxOverlap)]_vars

-----------------------------------------------------------------------------
(* Handlers that call the bus while they are dispatched *)

ReentrantHandlers == {<<"sub", n>> : n \in 1..4} \cup {<<"emit", 1>>, <<"pub", 1>>}
InnerHandlers == {<<"plain", 1>>, <<"slow", 1>>}

\* await bus.subscribe(pattern, handler, priority, once), by a caller, for
\* the handlers hs
SubscribeHandler(maxSubs, pats, hs, prios) ==
  /\ nsub < maxSubs
  /\ \E pat \in pats, h \in hs, prio \in prios, once \in BOOLEAN :
       handlers' = Subscribed(handlers, Subscription(pat, h, prio, once, nsub + 1))
  /\ nsub' = nsub + 1
  /\ UNCHANGED <<pubs, waits, reqs, ready>>
  /\ UNCHANGED <<engVars, libVars>>

\* await bus.publish(event, payload), by a caller, on the events evs
PublishEvent(maxPubs, evs, payloads) ==
  /\ Cardinality({p \in 1..Len(pubs) : pubs[p].ev \in evs}) < maxPubs
  /\ \E ev \in evs, payload \in payloads :
       LET s == [ExecState EXCEPT !.p = Append(@, NewPub(ev, payload))]
       IN \E t \in {StartPub(s, Len(pubs) + 1)} : Install(t)
  /\ UNCHANGED reqs
  /\ UNCHANGED <<engVars, libVars>>

ReentrantNext(maxPubs) ==
  \/ SubscribeHandler(MaxReSubs, {P_aStar}, ReentrantHandlers, {10})
  \/ SubscribeHandler(MaxReSubs, {P_aStar, E_xdone}, InnerHandlers, {5})
  \/ PublishEvent(maxPubs, Events, BusPayloads)
  \/ HandlerWakes
  \/ RunPubTask

\* The bus with handlers that subscribe and publish while they are dispatched
SpecReentrant ==
  Init /\ [][ReentrantNext(MaxRePubs)]_vars /\ WF_vars(HandlerWakes) /\ WF_vars(RunPubTask)

\* The same, with a publish call after the one whose handlers called the bus
SpecReentrantNext ==
  Init /\ [][ReentrantNext(MaxNextPubs)]_vars /\ WF_vars(HandlerWakes) /\ WF_vars(RunPubTask)

SeriesNext ==
  \/ SubscribeHandler(MaxSeriesSubs, Patterns, Handlers, {5})
  \/ PublishEvent(MaxSeriesPubs, Events, BusPayloads)
  \/ HandlerWakes
  \/ RunPubTask

\* The bus with callers that publish one call after, or during, another
SpecSeries == Init /\ [][SeriesNext]_vars

-----------------------------------------------------------------------------
(* wait_for and request *)

\* bus.publish_nowait(event, payload), by a caller
PublishNowait(maxPubs, evs, payloads) ==
  /\ Len(pubs) - Len(reqs) < maxPubs
  /\ \E ev \in evs, payload \in payloads :
       \E t \in {Spawned(ExecState, ev, payload)} : Install(t)
  /\ UNCHANGED reqs
  /\ UNCHANGED <<engVars, libVars>>

\* A wait_for call: its arguments, its future `fut` ("pending", "result" with
\* the payload `res`, or "cancelled"), whether its timeout has expired
\* (`fired`), and where the call stands: "new" (a task not yet run),
\* "waiting" (suspended in asyncio.wait_for), "result" (it returned res),
\* "timeout" (it raised TimeoutError).  `req` is the request() call whose task
\* it is (0: called directly); `acc` is history, see NoteAccepted.
NewWait(ev, cond, timed, st, req) ==
  [ev |-> ev, cond |-> cond, timed |-> timed, st |-> st, fut |-> "pending",
   res |-> NoPayload, fired |-> FALSE, acc |-> 0, req |-> req]

\* wait_for up to its suspension: `await self.subscribe(event, _checker,
\* once=True)` with the default priority 0
CheckerSubscription(ev, w, id) == Subscription(ev, <<"chk", w>>, 0, TRUE, id)

WaitEvents == {E_xdone}
WaitConditions == {[k |-> "any", x |-> 0], [k |-> "val", x |-> 2]}
WaitPayloads == {Payload(0, 1), Payload(0, 2)}

\* await bus.wait_for(event, condition, timeout), by a caller: the checker is
\* subscribed and the caller suspends on the future
WaitFor(maxWaits) ==
  /\ Len(waits) < maxWaits
  /\ \E ev \in WaitEvents, cond \in WaitConditions, timed \in BOOLEAN :
       /\ waits' = Append(waits, NewWait(ev, cond, timed, "waiting", 0))
       /\ handlers' = Subscribed(handlers, CheckerSubscription(ev, Len(waits) + 1, nsub + 1))
  /\ nsub' = nsub + 1
  /\ UNCHANGED <<pubs, reqs, ready>>
  /\ UNCHANGED <<engVars, libVars>>

\* The timeout of asyncio.wait_for expires while the future is pending: the
\* waiting task is woken.
TimerFires ==
  /\ \E w \in 1..Len(waits) :
       /\ waits[w].st = "waiting"
       /\ waits[w].timed
       /\ ~waits[w].fired
       /\ waits[w].fut = "pending"
       /\ waits' = [waits EXCEPT ![w].fired = TRUE]
       /\ ready' = Append(ready, <<"wait", w>>)
  /\ UNCHANGED <<handlers, nsub, pubs, reqs>>
  /\ UNCHANGED <<engVars, libVars>>

\* asyncio.wait_for resumed by its timeout with the future still pending: the
\* future is cancelled and TimeoutError raised
TimedOut(wr) == [wr EXCEPT !.fut = "cancelled", !.st = "timeout"]

\* asyncio.wait_for resumed: the future's result if it has one, else TimeoutError
Resumed(wr) == IF wr.fut = "result" THEN [wr EXCEPT !.st = "result"] ELSE TimedOut(wr)

\* The event loop runs the next task, a wait_for call: a new one subscribes its
\* checker and suspends; a woken one ends, and wakes the request() awaiting it.
RunWaitTask ==
  /\ ready # <<>>
  /\ Head(ready)[1] = "wait"
  /\ LET w == Head(ready)[2] IN
     IF waits[w].st = "new"
     THEN /\ waits' = [waits EXCEPT ![w].st = "waiting"]
          /\ handlers' = Subscribed(handlers, CheckerSubscription(waits[w].ev, w, nsub + 1))
          /\ nsub' = nsub + 1
          /\ ready' = Tail(ready)
     ELSE /\ waits' = [waits EXCEPT ![w] = Resumed(@)]
          /\ ready' = IF waits[w].req # 0
                      THEN Append(Tail(ready), <<"req", waits[w].req>>)
                      ELSE Tail(ready)
          /\ UNCHANGED <<handlers, nsub>>
  /\ UNCHANGED <<pubs, reqs>>
  /\ UNCHANGED <<engVars, libVars>>

WaitNext ==
  \/ WaitFor(MaxWaits)
  \/ PublishNowait(MaxWaitPubs, WaitEvents, WaitPayloads)
  \/ TimerFires
  \/ RunWaitTask
  \/ RunPubTask

\* The event loop runs a task that is ready, and a timeout that is due expires.
WaitFairness ==
  WF_vars(TimerFires) /\ WF_vars(RunWaitTask) /\ WF_vars(RunPubTask)

\* The bus with callers that wait for events and publish them
SpecWait == Init /\ [][WaitNext]_vars /\ WaitFairness

LateNext ==
  \/ WaitFor(1)
  \/ SubscribeHandler(1 + Len(waits), WaitEvents, {<<"slow", 1>>}, {5})
  \/ PublishNowait(MaxLatePubs, WaitEvents, WaitPayloads)
  \/ HandlerWakes
  \/ TimerFires
  \/ RunWaitTask
  \/ RunPubTask

\* One wait_for call and one handler that suspends, so that publish calls of
\* the awaited event overlap and reach the checker after the wait has ended
SpecLate == Init /\ [][LateNext]_vars /\ WaitFairness /\ WF_vars(HandlerWakes)

\* A request() call: its correlation id, its wait_for task `w`, where it
\* stands ("await" the task, "returned", or "timeout": it raised TimeoutError)
\* and the response payload it got; `p` is the publish call of its request
\* event.
NewReq(cid, w, p) ==
  [cid |-> cid, w |-> w, p |-> p, st |-> "await", resp |-> NoPayload]

\* Python's ^ on non-negative integers
RECURSIVE Xor(_, _)
Xor(a, b) ==
  IF a = 0 THEN b
  ELSE IF b = 0 THEN a
  ELSE (((a % 2) + (b % 2)) % 2) + (2 * Xor(a \div 2, b \div 2))

\* id(prompt), the address of the prompt object, and int(loop.time() * 1e6),
\* the clock in microseconds: a call may read the clock value of the call
\* before it or a later one, so the value read is not kept.
PromptIds == {4, 5}
Ticks == {0, 1}

\* correlation_id = id(prompt) ^ int(asyncio.get_event_loop().time() * 1e6)
CorrelationId(prompt, t) == Xor(prompt, t)

CIDs == {CorrelationId(a, t) : a \in PromptIds, t \in Ticks}
Results == {1, 2}
ResponsePayloads == {Payload(c, v) : c \in CIDs, v \in Results}

\* asyncio.create_task(self.event_bus.wait_for("consciousness.response",
\* lambda res: ... res.get("cid") == correlation_id, timeout=timeout))
WaitSpawned(s, cid, r) ==
  [s EXCEPT !.w = Append(@, NewWait(E_response, [k |-> "cid", x |-> cid], TRUE, "new", r)),
            !.r = Append(@, <<"wait", Len(s.w) + 1>>)]

PublishThenWait(s, cid, r) == WaitSpawned(Spawned(s, E_request, Payload(cid, 0)), cid, r)

\* The two tasks request() creates, in the order of the code: the wait_for
\* task, then the task that publishes the request event
WaitThenPublish(s, cid, r) == Spawned(WaitSpawned(s, cid, r), E_request, Payload(cid, 0))

\* engine.request(prompt), by a caller, up to `await fut`
Request(maxReqs) ==
  /\ Len(reqs) < maxReqs
  /\ \E prompt \in PromptIds, now \in Ticks :
       LET cid == CorrelationId(prompt, now) IN
       /\ reqs' = Append(reqs, NewReq(cid, Len(waits) + 1, Len(pubs) + 1))
       /\ \E t \in {WaitThenPublish(ExecState, cid, Len(reqs) + 1)} : Install(t)
  /\ UNCHANGED <<engVars, libVars>>

TimeoutSwallowed(rr, wr) == [rr EXCEPT !.st = "returned"]

\* request() resumed by a TimeoutError of its task: `raise TimeoutError(...)`
TimeoutRaised(rr, wr) == [rr EXCEPT !.st = "timeout"]

\* request() resumed when its wait_for task has ended
Answered(rr, wr) ==
  IF wr.st = "result" THEN [rr EXCEPT !.st = "returned", !.resp = wr.res]
  ELSE TimeoutRaised(rr, wr)

\* response.get("result")
Result(rr) == rr.resp.val

\* The event loop runs the next task, a request() call whose task has ended.
RunReqTask ==
  /\ ready # <<>>
  /\ Head(ready)[1] = "req"
  /\ LET r == Head(ready)[2]
     IN reqs' = [reqs EXCEPT ![r] = Answered(@, waits[reqs[r].w])]
  /\ ready' = Tail(ready)
  /\ UNCHANGED <<handlers, nsub, pubs, waits>>
  /\ UNCHANGED <<engVars, libVars>>

ReqNext(maxReqs, maxResponses) ==
  \/ Request(maxReqs)
  \/ PublishNowait(maxResponses, {E_response}, ResponsePayloads)
  \/ TimerFires
  \/ RunWaitTask
  \/ RunPubTask
  \/ RunReqTask

ReqFairness == WaitFairness /\ WF_vars(RunReqTask)

\* The engine's request() with callers that publish responses
SpecReq == Init /\ [][ReqNext(MaxReqs, MaxResponses)]_vars /\ ReqFairness

\* The same, with enough responses for one to come after another
SpecReqOrder == Init /\ [][ReqNext(MaxLateReqs, MaxLateResponses)]_vars /\ ReqFairness

\* The same, sized for the runs that follow every request to its end
SpecTimeout == Init /\ [][ReqNext(MaxTimedReqs, MaxStrayResponses)]_vars /\ ReqFairness

\* A subscriber of the request event that answers every request at once
Replier == <<"reply", 1>>

\* await bus.subscribe("consciousness.request", replier, priority), by a caller
SubscribeReplier ==
  /\ ~\E k \in 1..Len(handlers) : handlers[k].h = Replier
  /\ \E prio \in Priorities :
       handlers' = Subscribed(handlers, Subscription(E_request, Replier, prio, FALSE, nsub + 1))
  /\ nsub' = nsub + 1
  /\ UNCHANGED <<pubs, waits, reqs, ready>>
  /\ UNCHANGED <<engVars, libVars>>

ReplyNext(maxReqs) ==
  \/ SubscribeReplier
  \/ Request(maxReqs)
  \/ TimerFires
  \/ RunWaitTask
  \/ RunPubTask
  \/ RunReqTask

\* The engine's request() with a subscriber that answers the requests
SpecReply == Init /\ [][ReplyNext(MaxReplyReqs)]_vars /\ ReqFairness

-----------------------------------------------------------------------------
(* publish_nowait in the contexts the program calls it from: a coroutine on  *)
(* the event loop ("coroutine"), a handler during a dispatch ("handler"),    *)
(* and ModelManager.infer, which ConsciousnessEngine._on_request runs on an  *)
(* executor thread ("thread").                                               *)

\* asyncio.create_task looks up the running loop of the calling thread: the
\* event loop's thread has one, an executor thread has none.
RunningLoop(ctx) == ctx # "thread"

\* publish_nowait(event, payload) called in context ctx: create_task queues the
\* call, or raises RuntimeError('no running event loop')
PublishedNowait(s, ev, payload, ctx) ==
  IF RunningLoop(ctx) THEN Spawned(s, ev, payload)
  ELSE [s EXCEPT !.p = Append(@, [NewPub(ev, payload) EXCEPT !.st = "refused"])]

\* ModelManager.infer on an executor thread; `ok`: model.infer returned.  The
\* RuntimeError of publish_nowait("model.infer", ...) is raised inside the
\* `try` and caught by `except Exception`, whose publish_nowait("model.error",
\* ...) raises in turn.
Inferred(s, ok) ==
  LET t == IF ok THEN PublishedNowait(s, E_model_infer, NoPayload, "thread") ELSE s
  IN IF ok /\ t.p[Len(t.p)].st # "refused" THEN t
     ELSE PublishedNowait(t, E_model_error, NoPayload, "thread")

\* self.model_manager.infer(...), run by an executor thread
Infer(maxInfers) ==
  /\ Cardinality({p \in 1..Len(pubs) : pubs[p].ev = E_model_error}) < maxInfers
  /\ \E ok \in BOOLEAN : \E t \in {Inferred(ExecState, ok)} : Install(t)
  /\ UNCHANGED reqs
  /\ UNCHANGED <<engVars, libVars>>

\* bus.publish_nowait(event, payload), by a coroutine on the event loop
PublishNowaitOnLoop(maxPubs, evs, payloads) ==
  /\ Cardinality({p \in 1..Len(pubs) : pubs[p].ev \in evs}) < maxPubs
  /\ \E ev \in evs, payload \in payloads :
       \E t \in {PublishedNowait(ExecState, ev, payload, "coroutine")} : Install(t)
  /\ UNCHANGED reqs
  /\ UNCHANGED <<engVars, libVars>>

ContextEvents == {E_ab, E_request}
ContextPayloads == {Payload(1, 1)}

ContextNext ==
  \/ Subscribe
  \/ SubscribeReplier
  \/ PublishNowaitOnLoop(MaxCtxPubs, ContextEvents, ContextPayloads)
  \/ Infer(MaxInfers)
  \/ HandlerWakes
  \/ RunPubTask

\* The bus with callers of publish_nowait in the three contexts
SpecContexts == Init /\ [][ContextNext]_vars /\ WF_vars(RunPubTask)

-----------------------------------------------------------------------------
(* The engine: initialize, shutdown and the three supervised loops.  The     *)
(* owner of the engine makes its calls one after the other (as main.py does: *)
(* `await engine.initialize()` ... `await engine.shutdown()`), at any point   *)
(* of the loops' progress.  The sleeps of the loops elapse in any order.      *)

\* A loop task: which loop it runs, and where it stands: "new" (created, not
\* yet run), "sleeping" (suspended in asyncio.sleep), "woken" (runnable again),
\* "done" (its coroutine returned), "cancelled" (cancelled before it ever
\* ran).  `cancel`: a CancelledError is to be thrown into it when it resumes.
\* History: `fx` counts its side effects (memory calls and publish_nowait
\* calls), `cst` is where it stood when its cancellation was requested, `flt`
\* counts the faults its `except Exception` clause has caught, `its` the
\* iterations of its `while` it has begun, `sus` the times it has suspended.
NewLoop(kind) ==
  [kind |-> kind, st |-> "new", cancel |-> FALSE, fx |-> 0, cst |-> "none", flt |-> 0,
   its |-> 0, sus |-> 0]

\* The state a step of the engine works on: ExecState, the loop tasks `l` and
\* the shutdown call `sd`.
EngState ==
  [h |-> handlers, n |-> nsub, p |-> pubs, w |-> waits, r |-> ready, lk |-> FALSE,
   l |-> loops, sd |-> sd]

InstallEng(s) ==
  /\ Install(s)
  /\ loops' = s.l
  /\ sd' = s.sd

\* self.memory.get_pending_tasks() / self.memory.prune(...), called by loop l
MemoryCall(s, l) == [s EXCEPT !.l[l].fx = @ + 1]

\* self.event_bus.publish_nowait(event, ...), called by loop l (what the
\* payload is plays no part)
Published(s, l, ev) ==
  [Spawned(s, ev, NoPayload) EXCEPT !.p[Len(s.p) + 1].src = l, !.l[l].fx = @ + 1]

Terminated(lr) == lr.st \in {"done", "cancelled"}

\* asyncio.gather(*tasks, return_exceptions=True): its future resolves when
\* every task has ended, however it ended
GatherDone(s) ==
  \A k \in 1..Len(s.sd.gathered) : Terminated(s.l[s.sd.gathered[k]])

\* When the future of gather resolves, the shutdown call that awaits it is
\* runnable again.
Gathered(s) ==
  IF s.sd.st = "gathering" /\ GatherDone(s)
  THEN [s EXCEPT !.sd.st = "resuming", !.r = Append(@, <<"sd", 0>>)]
  ELSE s

\* The loop's coroutine returns (the `while` ends or `break`).
Returned(s, l) == Gathered([s EXCEPT !.l[l].st = "done"])

LoopFaultEnds(s, l) == Returned([s EXCEPT !.l[l].flt = @ + 1], l)

\* `except Exception as e: logger.error(...)`: the fault is logged and the
\* `while` goes on
OnLoopFault(s, l) == [s EXCEPT !.l[l].flt = @ + 1]

\* The condition of the `while` held: the loop begins an iteration
Entered(s, l) == [s EXCEPT !.l[l].its = @ + 1]

\* `await asyncio.sleep(...)`: the loop suspends
Sleeping(s, l) == [s EXCEPT !.l[l].st = "sleeping", !.l[l].sus = @ + 1]

\* memory.get_pending_tasks() raises `faults` times running: each time the
\* decision loop is back at the top of its `while` without having suspended
RECURSIVE Faulted(_, _, _)
Faulted(s, l, faults) ==
  IF faults = 0 \/ Terminated(s.l[l]) THEN s
  ELSE CHOOSE t \in {Faulted(v, l, faults - 1) : v \in {OnLoopFault(MemoryCall(Entered(s, l), l), l)}} : TRUE

FromTopIgnoringStop(s, l, pending, faults) ==
  IF s.l[l].kind = "decision"
  THEN Sleeping(Published(MemoryCall(Entered(s, l), l), l, E_task), l)
  ELSE Sleeping(Entered(s, l), l)

\* A loop from `while not self._stop_event.is_set()` to its next sleep.  The
\* decision loop first asks the memory for its pending tasks (`faults`: the
\* calls that raise before one returns; `pending`: there is a task) and
\* publishes each.
FromTop(s, l, pending, faults) ==
  IF Terminated(s.l[l]) THEN s
  ELSE IF stop THEN Returned(s, l)
  ELSE IF s.l[l].kind = "decision"
       THEN LET f == Faulted(s, l, faults)
                t == MemoryCall(Entered(f, l), l)
                u == IF pending THEN Published(t, l, E_task) ELSE t
            IN IF Terminated(f.l[l]) THEN f ELSE Sleeping(u, l)
  ELSE Sleeping(Entered(s, l), l)

\* A loop from the return of its sleep to the end of the `try` block;
\* `pruned`: memory.prune returned (otherwise it raised, and `except
\* Exception` logged the fault).
AfterSleep(s, l, pruned) ==
  CASE s.l[l].kind = "decision" -> Published(s, l, E_check_calendar)
    [] s.l[l].kind = "optimize" -> Published(s, l, E_optimize)
    [] s.l[l].kind = "memory" ->
         IF pruned THEN Published(MemoryCall(s, l), l, E_memory_pruned)
         ELSE OnLoopFault(MemoryCall(s, l), l)

\* The CancelledError thrown into a task that resumes: a task that has not
\* started ends cancelled; inside the loop, `except asyncio.CancelledError:
\* break`.
Cancelled(s, l) ==
  IF s.l[l].st = "new" THEN Gathered([s EXCEPT !.l[l].st = "cancelled"])
  ELSE Returned(s, l)

\* One step of a loop task, from its resumption to its next suspension
LoopStep(s, l, pending, pruned, faults) ==
  IF s.l[l].cancel THEN Cancelled(s, l)
  ELSE IF s.l[l].st = "new" THEN FromTop(s, l, pending, faults)
  ELSE CHOOSE t \in {FromTop(v, l, pending, faults) : v \in {AfterSleep(s, l, pruned)}} : TRUE

\* whether the next step of loop l calls memory.get_pending_tasks()
AsksMemory(l) == loops[l].kind = "decision" /\ ~loops[l].cancel /\ ~stop

CancelNothing(s, l) == s

CancelOnlyWaiting(s, l) ==
  IF s.l[l].st = "sleeping"
  THEN [s EXCEPT !.l[l].st = "woken", !.l[l].cancel = TRUE, !.l[l].cst = "sleeping",
                 !.r = Append(@, <<"loop", l>>)]
  ELSE s

\* Task.cancel(): the sleep a task is suspended in is cancelled and the task
\* is runnable again; a task that is runnable already, started or not, is
\* marked; a task that has ended is left alone.
CancelTask(s, l) ==
  CASE s.l[l].st = "sleeping" ->
         [s EXCEPT !.l[l].st = "woken", !.l[l].cancel = TRUE, !.l[l].cst = "sleeping",
                   !.r = Append(@, <<"loop", l>>)]
    [] s.l[l].st \in {"new", "woken"} ->
         [s EXCEPT !.l[l].cancel = TRUE,
                   !.l[l].cst = IF s.l[l].cancel THEN @ ELSE s.l[l].st]
    [] OTHER -> s

\* `for t in self._tasks: t.cancel()`
RECURSIVE CancelAll(_, _)
CancelAll(s, ts) ==
  IF ts = <<>> THEN s
  ELSE CHOOSE t \in {CancelAll(v, Tail(ts)) : v \in {CancelTask(s, Head(ts))}} : TRUE

\* shutdown() after its `await asyncio.gather(...)`
ShutdownReturns(s) == [Spawned(s, E_shutdown, NoPayload) EXCEPT !.sd.st = "returned"]

\* await engine.initialize(), by the owner of the engine
Initialize(maxInits) ==
  /\ eng.inits < maxInits
  /\ sd.st \notin {"gathering", "resuming"}
  /\ LET n == Len(loops)
         s == [EngState EXCEPT
                 !.n = nsub + 1,
                 !.h = Subscribed(@, Subscription(E_request, <<"onreq", 0>>, 10, FALSE, nsub + 1)),
                 !.l = @ \o <<NewLoop("decision"), NewLoop("optimize"), NewLoop("memory")>>,
                 !.r = @ \o << <<"loop", n + 1>>, <<"loop", n + 2>>, <<"loop", n + 3>> >>]
     IN /\ \E t \in {Spawned(s, E_initialized, NoPayload)} : InstallEng(t)
        /\ tasks_' = <<n + 1, n + 2, n + 3>>
  /\ eng' = [eng EXCEPT !.inits = @ + 1]
  /\ UNCHANGED <<reqs, stop>>
  /\ UNCHANGED libVars

\* await engine.shutdown(), by the owner of the engine, up to its `await
\* asyncio.gather(...)`; gather of no task at all is resolved already and the
\* call runs on to its end.
Shutdown(maxShutdowns) ==
  /\ eng.shutdowns < maxShutdowns
  /\ sd.st \notin {"gathering", "resuming"}
  /\ stop' = TRUE
  /\ LET s == CancelAll([EngState EXCEPT !.sd = [st |-> "gathering", gathered |-> tasks_]],
                        tasks_)
     IN \E t \in {IF tasks_ = <<>> THEN ShutdownReturns(s) ELSE Gathered(s)} : InstallEng(t)
  /\ eng' = [eng EXCEPT !.shutdowns = @ + 1]
  /\ UNCHANGED <<reqs, tasks_>>
  /\ UNCHANGED libVars

\* The sleep of a loop elapses: the loop is runnable again.
SleepElapses(maxWakes) ==
  /\ eng.wakes < maxWakes
  /\ \E l \in 1..Len(loops) :
       /\ loops[l].st = "sleeping"
       /\ loops' = [loops EXCEPT ![l].st = "woken"]
       /\ ready' = Append(ready, <<"loop", l>>)
  /\ eng' = [eng EXCEPT !.wakes = @ + 1]
  /\ UNCHANGED <<handlers, nsub, pubs, waits, reqs, tasks_, stop, sd>>
  /\ UNCHANGED libVars

\* The event loop runs the next task, a supervised loop.
RunLoopTask(maxFaults) ==
  /\ ready # <<>>
  /\ Head(ready)[1] = "loop"
  /\ LET l == Head(ready)[2]
         s == [EngState EXCEPT !.r = Tail(ready)]
     IN \E pending \in BOOLEAN, pruned \in BOOLEAN,
           faults \in 0..(IF AsksMemory(l) THEN maxFaults - eng.faults ELSE 0) :
          /\ \E t \in {LoopStep(s, l, pending, pruned, faults)} : InstallEng(t)
          /\ eng' = [eng EXCEPT !.faults = @ + faults]
  /\ UNCHANGED <<reqs, tasks_, stop>>
  /\ UNCHANGED libVars

\* The event loop runs the next task, the shutdown call whose gather is over.
RunShutdownTask ==
  /\ ready # <<>>
  /\ Head(ready)[1] = "sd"
  /\ \E t \in {ShutdownReturns([EngState EXCEPT !.r = Tail(ready)])} : InstallEng(t)
  /\ UNCHANGED <<reqs, tasks_, stop, eng>>
  /\ UNCHANGED libVars

EngNext(maxInits, maxShutdowns, maxWakes, maxFaults) ==
  \/ Initialize(maxInits)
  \/ Shutdown(maxShutdowns)
  \/ SleepElapses(maxWakes)
  \/ RunLoopTask(maxFaults)
  \/ RunShutdownTask
  \/ RunPubTask

\* The event loop runs every task of its queue.
EngFairness(maxFaults) ==
  WF_vars(RunLoopTask(maxFaults)) /\ WF_vars(RunShutdownTask) /\ WF_vars(RunPubTask)

\* The engine with an owner that initializes it and shuts it down, and a
\* memory whose get_pending_tasks returns
SpecEngine == Init /\ [][EngNext(MaxInits, MaxShutdowns, MaxWakes, 0)]_vars /\ EngFairness(0)

\* The engine with an owner that initializes it again after a shutdown; one
\* sleep elapses
SpecRestart ==
  /\ Init
  /\ [][EngNext(MaxRestartInits, MaxRestartShutdowns, 1, 0)]_vars
  /\ EngFairness(0)

\* The engine, initialized once, with a memory whose calls may raise
SpecFaults ==
  /\ Init
  /\ [][EngNext(1, MaxFaultShutdowns, MaxFaultWakes, MaxLoopFaults)]_vars
  /\ EngFairness(MaxLoopFaults)

-----------------------------------------------------------------------------
(* DIContainer.  Every method holds the container's RLock from its first to   *)
(* its last line, the call of the factory included, so each call is one step. *)

Factories == {1, 2}
Scopes == {"singleton", "transient"}

\* History: a get call: the type, the `ep` of the type when it was made, the
\* scope of the binding, whether the factory was called, and how the call
\* ended: "returned" (with the instance `inst`), "KeyError", or "fault" (the
\* factory raised).
GetRecord(d, t, called, r, inst) ==
  [t |-> t, ep |-> d.ep[t], scope |-> d.b[t].scope, called |-> called, r |-> r, inst |-> inst]

\* bind(abstract, factory, scope): the binding is replaced and a cached
\* singleton of the type is dropped
Bound(d, t, f, scope) ==
  [d EXCEPT !.b[t] = [scope |-> scope, f |-> f], !.s[t] = 0, !.ep[t] = @ + 1]

\* binding["factory"](): a new object, unless the factory raises (`ok` false)
Made(d) == d.n + 1

GotUncached(d, t, ok) ==
  CASE d.b[t].scope = "none" ->
         [d EXCEPT !.gets = Append(@, GetRecord(d, t, FALSE, "KeyError", 0))]
    [] OTHER ->
         IF ok THEN [d EXCEPT !.n = Made(d),
                              !.gets = Append(@, GetRecord(d, t, TRUE, "returned", Made(d)))]
         ELSE [d EXCEPT !.gets = Append(@, GetRecord(d, t, TRUE, "fault", 0))]

\* get(abstract)
Got(d, t, ok) ==
  CASE d.b[t].scope = "none" ->
         [d EXCEPT !.gets = Append(@, GetRecord(d, t, FALSE, "KeyError", 0))]
    [] d.b[t].scope = "singleton" /\ d.s[t] # 0 ->
         [d EXCEPT !.gets = Append(@, GetRecord(d, t, FALSE, "returned", d.s[t]))]
    [] d.b[t].scope = "singleton" /\ d.s[t] = 0 ->
         IF ok THEN [d EXCEPT !.n = Made(d), !.s[t] = Made(d),
                              !.gets = Append(@, GetRecord(d, t, TRUE, "returned", Made(d)))]
         ELSE [d EXCEPT !.gets = Append(@, GetRecord(d, t, TRUE, "fault", 0))]
    [] d.b[t].scope = "transient" ->
         IF ok THEN [d EXCEPT !.n = Made(d),
                              !.gets = Append(@, GetRecord(d, t, TRUE, "returned", Made(d)))]
         ELSE [d EXCEPT !.gets = Append(@, GetRecord(d, t, TRUE, "fault", 0))]

\* clear()
Cleared(d) ==
  [d EXCEPT !.b = [t \in Types |-> [scope |-> "none", f |-> 0]],
            !.s = [t \in Types |-> 0],
            !.ep = [t \in Types |-> @[t] + 1]]

\* the calls made on the container so far (a clear counts once for each type)
DiCalls == Len(di.gets) + di.ep["A"] + di.ep["B"]

\* container.bind(...), by any thread
Bind ==
  /\ DiCalls < MaxDiCalls
  /\ \E t \in Types, f \in Factories, scope \in Scopes : di' = Bound(di, t, f, scope)
  /\ UNCHANGED <<busVars, engVars, mem, mm>>

\* container.get(...), by any thread
Get ==
  /\ DiCalls < MaxDiCalls
  /\ \E t \in Types, ok \in BOOLEAN : di' = Got(di, t, ok)
  /\ UNCHANGED <<busVars, engVars, mem, mm>>

\* container.clear(), by any thread
Clear ==
  /\ DiCalls < MaxDiCalls
  /\ di' = Cleared(di)
  /\ UNCHANGED <<busVars, engVars, mem, mm>>

DiNext == Bind \/ Get \/ Clear

\* The container with threads that bind, get and clear
SpecDI == Init /\ [][DiNext]_vars

-----------------------------------------------------------------------------
(* MemoryManager.  A text is the sequence of its whitespace-separated tokens; *)
(* every method holds the manager's RLock around its statement.              *)

Prompts == {<<"hi">>, <<"a", "b">>}
Responses == {<<"hello">>, <<"c", "d">>}

\* limit_tokens: {} is None, {n} is the limit n
Limits == {{}} \cup {{n} : n \in 1..MaxLimit}

\* the timestamp (whole seconds) of the newest row; 0 on an empty table
LastStamp(m) == IF m.rows = <<>> THEN 0 ELSE m.rows[Len(m.rows)].ts

\* store_interaction(prompt, response) at the second ts: INSERT INTO interactions
Stored(m, ts, prompt, response) ==
  [m EXCEPT !.rows = Append(@, [ts |-> ts, prompt |-> prompt, response |-> response])]

\* SELECT ... ORDER BY timestamp DESC LIMIT max_interactions: the row numbers
\* in the order of the result; rows of the same second come in any order
Selections(rows, max_interactions) ==
  LET k == IF Len(rows) < max_interactions THEN Len(rows) ELSE max_interactions
  IN {sel \in [1..k -> 1..Len(rows)] :
        /\ \A i, j \in 1..k : i < j => sel[i] # sel[j] /\ rows[sel[i]].ts >= rows[sel[j]].ts
        /\ \A i \in 1..k, r \in 1..Len(rows) :
             (\A j \in 1..k : sel[j] # r) => rows[r].ts <= rows[sel[i]].ts}

\* the lines "User: <prompt>" and "AI: <response>" of one row
Lines(row) == <<"User:">> \o row.prompt \o <<"AI:">> \o row.response

\* "\n".join(parts) over reversed(rows): the selected rows, oldest first
RECURSIVE Joined(_, _, _)
Joined(rows, sel, i) ==
  IF i = 0 THEN <<>> ELSE Lines(rows[sel[i]]) \o Joined(rows, sel, i - 1)

\* retrieve_context(limit_tokens, max_interactions) when the SELECT returned
\* sel: limit_tokens is not read
Retrieved(m, limit_tokens, max_interactions, sel) ==
  [m EXCEPT !.got = Append(@, [limit |-> limit_tokens, max |-> max_interactions,
                               rows |-> m.rows, text |-> Joined(m.rows, sel, Len(sel))])]

\* memory.store_interaction(...), by any thread
StoreInteraction ==
  /\ Len(mem.rows) < MaxStores
  /\ \E prompt \in Prompts, response \in Responses, ts \in {LastStamp(mem), LastStamp(mem) + 1} :
       mem' = Stored(mem, ts, prompt, response)
  /\ UNCHANGED <<busVars, engVars, di, mm>>

\* memory.retrieve_context(...), by any thread
RetrieveContext ==
  /\ Len(mem.got) < MaxRetrieves
  /\ \E limit_tokens \in Limits, max_interactions \in {1, 10} :
       \E sel \in Selections(mem.rows, max_interactions) :
         mem' = Retrieved(mem, limit_tokens, max_interactions, sel)
  /\ UNCHANGED <<busVars, engVars, di, mm>>

MemoryNext == StoreInteraction \/ RetrieveContext

\* The memory store with threads that store and retrieve
SpecMemory == Init /\ [][MemoryNext]_vars

-----------------------------------------------------------------------------
(* ModelManager.  A call is made by a thread and runs one section at a time:  *)
(* a section is the code run while self._lock is held, together with the      *)
(* thread's own code up to the next acquisition of the lock.  Between two     *)
(* sections of a call the lock is free and the calls of other threads run.    *)
(* _load_model does not raise: GGUFModelWrapper catches the faults of its     *)
(* loader and EchoModel has no constructor.  The models' infer does not raise.*)

ModelNames == {"default", "a", "b", "zz"}
Contexts == {"coroutine", "thread"}

\* A call: the method `op`, its arguments (a: the name to unload or remove,
\* b: the name to load or infer with), the context of the calling thread, the
\* section it runs next, how it ended, whether it removed `a` from self._models,
\* and self._models as it was when the call ended.
NewCall(op, a, b, ctx, pc) ==
  [op |-> op, a |-> a, b |-> b, ctx |-> ctx, pc |-> pc, r |-> "none", popped |-> FALSE,
   seen |-> {}]

\* the call leaves with r: returned, or the name of the exception raised
Finish(m, i, r) ==
  [m EXCEPT !.calls[i].pc = "done", !.calls[i].r = r, !.calls[i].seen = m.models]

\* self.event_bus.publish_nowait(...) as the last statement of a call
FinishPublishing(m, i) ==
  Finish(m, i, IF RunningLoop(m.calls[i].ctx) THEN "returned" ELSE "RuntimeError")

\* unload_model(a)
Unloaded(m, i) ==
  LET c == m.calls[i]
  IN IF c.a \in m.models /\ c.a # "default"
     THEN FinishPublishing([m EXCEPT !.models = @ \ {c.a}, !.calls[i].popped = TRUE], i)
     ELSE Finish(m, i, "returned")

\* remove_model(a)
Removed(m, i) ==
  LET c == m.calls[i]
      t == [m EXCEPT !.meta = @ \ {c.a}, !.models = @ \ {c.a},
                     !.calls[i].popped = c.a \in m.models]
  IN IF c.a \in m.meta THEN FinishPublishing(t, i) ELSE Finish(t, i, "returned")

\* hot_swap(a, b): the `with` block; load_model(b) is called after it
SwappedOut(m, i) ==
  LET c == m.calls[i]
      t == [m EXCEPT !.models = @ \ {c.a}, !.calls[i].popped = TRUE]
  IN IF c.a \in m.models /\ c.a # "default"
     THEN IF RunningLoop(c.ctx) THEN [t EXCEPT !.calls[i].pc = "load"]
          ELSE Finish(t, i, "RuntimeError")
     ELSE [m EXCEPT !.calls[i].pc = "load"]

\* load_model(b) has returned the model to its caller: load_model and hot_swap
\* return it, infer runs it and publishes model.infer (model.error when that
\* publish raises, which raises in turn)
LoadReturned(m, i) ==
  IF m.calls[i].op = "infer" THEN FinishPublishing(m, i) ELSE Finish(m, i, "returned")

\* load_model(b): the first `with` block
LoadChecked(m, i) ==
  LET c == m.calls[i]
  IN CASE c.b \in m.models -> LoadReturned(m, i)
       [] c.b \notin m.models /\ c.b \notin m.meta -> Finish(m, i, "KeyError")
       [] OTHER -> [m EXCEPT !.calls[i].pc = "store"]

\* load_model(b): _load_model, the second `with` block and the publish of
\* model.loaded
LoadStored(m, i) ==
  LET c == m.calls[i]
      t == [m EXCEPT !.models = @ \cup {c.b}]
  IN IF RunningLoop(c.ctx) THEN LoadReturned(t, i) ELSE Finish(t, i, "RuntimeError")

\* the next section of call i
Ran(m, i) ==
  CASE m.calls[i].pc = "unload" -> Unloaded(m, i)
    [] m.calls[i].pc = "remove" -> Removed(m, i)
    [] m.calls[i].pc = "swap" -> SwappedOut(m, i)
    [] m.calls[i].pc = "load" -> LoadChecked(m, i)
    [] m.calls[i].pc = "store" -> LoadStored(m, i)

Called(c) ==
  /\ Len(mm.calls) < MaxModelCalls
  /\ mm' = [mm EXCEPT !.calls = Append(@, c)]
  /\ UNCHANGED <<busVars, engVars, di, mem>>

\* a thread calls load_model(b)
LoadModel == \E b \in ModelNames, ctx \in Contexts : Called(NewCall("load_model", b, b, ctx, "load"))

\* a thread calls unload_model(a)
UnloadModel ==
  \E a \in ModelNames, ctx \in Contexts : Called(NewCall("unload_model", a, a, ctx, "unload"))

\* a thread calls remove_model(a)
RemoveModel ==
  \E a \in ModelNames, ctx \in Contexts : Called(NewCall("remove_model", a, a, ctx, "remove"))

\* a thread calls hot_swap(a, b)
HotSwap ==
  \E a \in ModelNames, b \in ModelNames, ctx \in Contexts :
    Called(NewCall("hot_swap", a, b, ctx, "swap"))

\* a thread calls infer(b, prompt)
InferWith == \E b \in ModelNames, ctx \in Contexts : Called(NewCall("infer", b, b, ctx, "load"))

\* a thread runs the next section of its call
RunCall ==
  /\ \E i \in 1..Len(mm.calls) : mm.calls[i].pc # "done" /\ mm' = Ran(mm, i)
  /\ UNCHANGED <<busVars, engVars, di, mem>>

ModelsNext == LoadModel \/ UnloadModel \/ RemoveModel \/ HotSwap \/ InferWith \/ RunCall

\* The model manager with threads that load, unload, remove, swap and infer
SpecModels == Init /\ [][ModelsNext]_vars

-----------------------------------------------------------------------------
(* The engine answering requests: _on_request, subscribed by initialize, runs *)
(* ModelManager.infer on an executor thread and publishes the terminal event. *)

\* The model managers an engine is built with: "wired", the ModelManager of
\* main.py, constructed without a bus and so publishing on an EventBus of its
\* own from the executor thread; "plain", one whose infer returns the output
\* of the model or raises its fault (the stubs of the tests).
Managers == {"wired", "plain"}

\* self.model_manager.infer(model_name, prompt=full_prompt) on the executor
\* thread, for the handler of publish call p; `ok`: the model returned its
\* output.  The call ends with "result" or "error" (it raised).
InferredFor(s, p, manager, ok) ==
  LET t == IF manager = "wired" THEN Inferred(s, ok) ELSE s
      out == IF ok /\ manager = "plain" THEN "result" ELSE "error"
  IN [t EXCEPT !.p[p].st = "inferred",
               !.p[p].outs = Append(@, [ok |-> ok, out |-> out]),
               !.r = Append(@, <<"onreq", p>>)]

\* _on_request after `await loop.run_in_executor(...)`: the error event and
\* return, or the response event (a fault of store_interaction is logged)
OnRequestResumed(s, p) ==
  LET pr == s.p[p]
      ev == IF pr.outs[Len(pr.outs)].out = "error" THEN E_error ELSE E_response
  IN AfterHandler(Spawned(s, ev, Payload(pr.payload.cid, 1)), p)

\* self.memory.store_interaction(prompt=prompt, response=result), called by
\* the handler when infer returned
StoredBy(m, pr, ts) ==
  IF pr.outs[Len(pr.outs)].out = "result" /\ ~m.down
  THEN Stored(m, ts, <<"hi">>, <<"hello">>)
  ELSE m

\* An executor thread runs the infer call a handler is waiting for.
RunInExecutor(managers) ==
  /\ \E p \in 1..Len(pubs), manager \in managers, ok \in BOOLEAN :
       /\ pubs[p].st = "exec"
       /\ \E t \in {InferredFor(ExecState, p, manager, ok)} : Install(t)
  /\ UNCHANGED reqs
  /\ UNCHANGED <<engVars, libVars>>

\* The event loop runs the next task, a publish call whose _on_request
\* handler has its result.
RunRequestHandler ==
  /\ ready # <<>>
  /\ Head(ready)[1] = "onreq"
  /\ LET p == Head(ready)[2]
     IN /\ \E t \in {OnRequestResumed([ExecState EXCEPT !.r = Tail(ready)], p)} : Install(t)
        /\ \E ts \in {LastStamp(mem), LastStamp(mem) + 1} : mem' = StoredBy(mem, pubs[p], ts)
  /\ UNCHANGED reqs
  /\ UNCHANGED <<engVars, di, mm>>

\* The database starts or stops refusing its statements.
MemoryTurns ==
  /\ mem' = [mem EXCEPT !.down = ~@]
  /\ UNCHANGED <<busVars, engVars, di, mm>>

AnswerNext(maxInits, maxReqs, managers) ==
  \/ Initialize(maxInits)
  \/ Request(maxReqs)
  \/ RunInExecutor(managers)
  \/ RunRequestHandler
  \/ RunLoopTask(0)
  \/ TimerFires
  \/ RunWaitTask
  \/ RunPubTask
  \/ RunReqTask

AnswerFairness(managers) ==
  /\ ReqFairness
  /\ WF_vars(RunLoopTask(0))
  /\ WF_vars(RunRequestHandler)
  /\ WF_vars(RunInExecutor(managers))

\* The engine wired as in main.py, with callers of request()
SpecWired ==
  Init /\ [][AnswerNext(1, MaxWiredReqs, {"wired"})]_vars /\ AnswerFairness({"wired"})

\* The engine with either model manager, an owner that may initialize it
\* again, and a memory whose database may refuse its statements
SpecAnswer ==
  /\ Init
  /\ [][AnswerNext(MaxAnswerInits, 1, Managers) \/ MemoryTurns]_vars
  /\ AnswerFairness(Managers)

-----------------------------------------------------------------------------
(* Properties of subscribe and publish *)

\* the subscription of a snapshot that has registration number id
SubOf(snap, id) == snap[CHOOSE k \in 1..Len(snap) : snap[k].id = id]

\* the subscriptions a publish call has invoked, in the order of invocation
Invoked(pr) == [k \in 1..Len(pr.inv) |-> SubOf(pr.snap, pr.inv[k])]

\* the registration numbers of the subscriptions of a snapshot that match ev
RECURSIVE MatchingIds(_, _)
MatchingIds(snap, ev) ==
  IF snap = <<>> THEN <<>>
  ELSE (IF FnMatch(ev, Head(snap).pat) THEN <<Head(snap).id>> ELSE <<>>)
       \o MatchingIds(Tail(snap), ev)

\* descending priority, equal priorities in registration order
InPriorityOrder(subs) ==
  \A i, j \in 1..Len(subs) :
    i < j => \/ subs[i].prio > subs[j].prio
             \/ subs[i].prio = subs[j].prio /\ subs[i].id < subs[j].id

\* how often the subscription with registration number id has been invoked
Invocations(id) ==
  Cardinality({x \in UNION {{<<p, k>> : k \in 1..Len(pubs[p].inv)} : p \in 1..Len(pubs)} :
                 pubs[x[1]].inv[x[2]] = id})

\* C1: the subscription list is always sorted by descending priority, equal
\* priorities in registration order, and every publish call invokes the
\* matching subscriptions of its snapshot in exactly that order.
C1_PriorityOrder ==
  /\ InPriorityOrder(handlers)
  /\ \A p \in 1..Len(pubs) :
       /\ InPriorityOrder(Invoked(pubs[p]))
       /\ \E n \in 0..Len(pubs[p].snap) :
            pubs[p].inv = MatchingIds(SubSeq(pubs[p].snap, 1, n), pubs[p].ev)

\* C1, reached: 'a.*' subscribed first at priority 5, then again at priority
\* 10; a finished publish of 'a.b' has invoked the second before the first.
C1_Witness ==
  \E p \in 1..Len(pubs) :
    /\ pubs[p].st = "done"
    /\ pubs[p].ev = E_ab
    /\ pubs[p].inv = <<2, 1>>
    /\ SubOf(pubs[p].snap, 1).pat = P_aStar /\ SubOf(pubs[p].snap, 1).prio = 5
    /\ SubOf(pubs[p].snap, 2).pat = P_aStar /\ SubOf(pubs[p].snap, 2).prio = 10

\* C2 as claimed: a once=true subscription is invoked at most once in total,
\* over any number of publish calls.
C2_OnceAtMostOnce ==
  \A p \in 1..Len(pubs) : \A k \in 1..Len(pubs[p].snap) :
    pubs[p].snap[k].once => Invocations(pubs[p].snap[k].id) <= 1

\* C6: no fault of a handler leaves publish, and a publish call that has ended
\* has invoked every matching subscription of its snapshot, those behind a
\* handler that raised included.
C6_FaultIsolated ==
  \A p \in 1..Len(pubs) :
    /\ pubs[p].st # "raised"
    /\ pubs[p].st = "done" => pubs[p].inv = MatchingIds(pubs[p].snap, pubs[p].ev)

\* C6, reached: a finished publish whose first handler raised and which went on
\* to invoke a handler of lower priority.
C6_Witness ==
  \E p \in 1..Len(pubs) :
    /\ pubs[p].st = "done"
    /\ Len(pubs[p].inv) = 2
    /\ Kind(Invoked(pubs[p])[1].h) = "raise"
    /\ Invoked(pubs[p])[1].prio > Invoked(pubs[p])[2].prio

-----------------------------------------------------------------------------
(* Properties of wait_for *)

HasChecker(hs, w) == \E k \in 1..Len(hs) : hs[k].h = <<"chk", w>>

\* C3 as claimed: when a publish call made while a wait was registered and
\* before its deadline carried a payload the predicate accepts, and that call
\* has ended, the wait is resolved with the payload of the first such call.
C3_FirstAcceptedResolves ==
  \A w \in 1..Len(waits) :
    (waits[w].acc # 0 /\ pubs[waits[w].acc].st = "done")
      => waits[w].fut = "result" /\ waits[w].res = pubs[waits[w].acc].payload

\* C7 as claimed: once a wait_for call has ended, by an event or by its
\* timeout, and no publish call is in flight, its subscription is gone.
C7_NoResidualSubscription ==
  \A w \in 1..Len(waits) :
    (waits[w].st \in {"result", "timeout"} /\ \A p \in 1..Len(pubs) : pubs[p].st = "done")
      => ~HasChecker(handlers, w)

-----------------------------------------------------------------------------
(* Properties of request *)

\* C4 as claimed: when a response carrying a request's correlation id was
\* published while the request's wait was registered and before its deadline,
\* and that publish call has ended, the wait is resolved with that response.
C4_CorrelatedResponseResolves ==
  \A r \in 1..Len(reqs) :
    LET wr == waits[reqs[r].w] IN
    (wr.acc # 0 /\ pubs[wr.acc].st = "done")
      => wr.fut = "result" /\ wr.res.val = pubs[wr.acc].payload.val

\* C5: a wait of request() is resolved only by a payload that carries the
\* request's correlation id, and request() returns the result of such a payload.
C5_OwnResponseOnly ==
  \A r \in 1..Len(reqs) :
    /\ waits[reqs[r].w].fut = "result" => waits[reqs[r].w].res.cid = reqs[r].cid
    /\ reqs[r].st = "returned" =>
         /\ reqs[r].resp.cid = reqs[r].cid
         /\ \E p \in 1..Len(pubs) :
              /\ pubs[p].ev = E_response
              /\ pubs[p].payload.cid = reqs[r].cid
              /\ pubs[p].payload.val = Result(reqs[r])

\* C5, reached: one publish of a response invoked the checkers of two
\* requests with different ids; the request with the response's id returned
\* its result and the other request's wait stayed unresolved by it.
C5_Witness ==
  \E r1, r2 \in 1..Len(reqs) : \E p \in 1..Len(pubs) :
    /\ reqs[r1].cid # reqs[r2].cid
    /\ pubs[p].payload.cid = reqs[r1].cid
    /\ \E a, b \in 1..Len(pubs[p].inv) :
         /\ Invoked(pubs[p])[a].h = <<"chk", reqs[r1].w>>
         /\ Invoked(pubs[p])[b].h = <<"chk", reqs[r2].w>>
    /\ reqs[r1].st = "returned"
    /\ Result(reqs[r1]) = pubs[p].payload.val
    /\ waits[reqs[r2].w].fut # "result"

\* C11: when the publish call of a request's event starts, the wait_for of the
\* request has subscribed its checker: the checker is in the snapshot the call
\* takes, ahead of every handler the call invokes and of every response such
\* a handler publishes.
C11_WaitRegisteredFirst ==
  \A r \in 1..Len(reqs) :
    pubs[reqs[r].p].st # "new" =>
      /\ waits[reqs[r].w].st # "new"
      /\ HasChecker(pubs[reqs[r].p].snap, reqs[r].w)

\* C11, reached: a request has returned the result of the response that a
\* handler of its request event published without suspending.
C11_Witness ==
  \E r \in 1..Len(reqs) :
    /\ reqs[r].st = "returned"
    /\ \E k \in 1..Len(pubs[reqs[r].p].inv) : Invoked(pubs[reqs[r].p])[k].h = Replier
    /\ \E q \in 1..Len(pubs) :
         /\ q > reqs[r].p
         /\ pubs[q].ev = E_response
         /\ waits[reqs[r].w].acc = q
         /\ Result(reqs[r]) = pubs[q].payload.val

\* C8: a request() whose wait_for got no accepted response ends with
\* TimeoutError, raised by wait_for when its timeout expired and passed on by
\* request(); and no request() stays suspended for ever.
C8_TimeoutSurfaces ==
  /\ [](\A r \in 1..Len(reqs) :
          (reqs[r].st # "await" /\ waits[reqs[r].w].fut # "result")
            => reqs[r].st = "timeout" /\ waits[reqs[r].w].st = "timeout")
  /\ \A r \in 1..MaxTimedReqs :
       (r <= Len(reqs)) ~> (r <= Len(reqs) /\ reqs[r].st # "await")

\* C8, reached: a request whose wait saw only a response to another request
\* has raised TimeoutError.
C8_Witness ==
  \E r \in 1..Len(reqs) : \E p \in 1..Len(pubs) :
    /\ reqs[r].st = "timeout"
    /\ waits[reqs[r].w].st = "timeout"
    /\ waits[reqs[r].w].acc = 0
    /\ pubs[p].ev = E_response
    /\ pubs[p].payload.cid # reqs[r].cid
    /\ pubs[p].st = "done"

-----------------------------------------------------------------------------
(* Properties of publish_nowait *)

\* C12 as claimed: no publish_nowait call raises a fault to its caller, in any
\* of the contexts it is called from, and no fault of a handler leaves the
\* publish call it queued.
C12_PublishNowaitNeverRaises ==
  \A p \in 1..Len(pubs) : pubs[p].st \notin {"refused", "raised"}

-----------------------------------------------------------------------------
(* Properties of shutdown *)

Supervised(l) == \E k \in 1..Len(sd.gathered) : sd.gathered[k] = l

\* C9: a shutdown() call that waits for its tasks returns, whatever the tasks
\* were doing when it was made, and when a shutdown() call has returned every
\* task of self._tasks that it cancelled and gathered has ended.
C9_ShutdownReturns ==
  /\ [](sd.st = "returned" => \A l \in 1..Len(loops) : Supervised(l) => Terminated(loops[l]))
  /\ (sd.st \in {"gathering", "resuming"}) ~> (sd.st = "returned")

\* C9, reached: a second shutdown() call has returned, after a first one that
\* cancelled a task asleep and a task that had not started.
C9_Witness ==
  /\ eng.shutdowns = 2
  /\ sd.st = "returned"
  /\ \E l \in 1..Len(loops) : Supervised(l) /\ loops[l].cst = "sleeping" /\ loops[l].st = "done"
  /\ \E l \in 1..Len(loops) : Supervised(l) /\ loops[l].cst = "new" /\ loops[l].st = "cancelled"

\* C10: once shutdown() has set the stop event and cancelled the tasks of
\* self._tasks, none of these tasks calls the memory or publish_nowait again,
\* and when shutdown() has returned every publish call they made is over.
C10_NoEffectAfterStop ==
  /\ [][stop => \A k \in 1..Len(tasks_) : loops'[tasks_[k]].fx = loops[tasks_[k]].fx]_vars
  /\ [](sd.st = "returned" =>
          \A p \in 1..Len(pubs) : Supervised(pubs[p].src) => pubs[p].st = "done")

\* C10, reached: shutdown() has returned after it cancelled a task whose sleep
\* had elapsed and which had not resumed; the task had published before.
C10_Witness ==
  /\ sd.st = "returned"
  /\ \E l \in 1..Len(loops) :
       /\ Supervised(l)
       /\ loops[l].cst = "woken"
       /\ loops[l].st = "done"
       /\ \E p \in 1..Len(pubs) : pubs[p].src = l

-----------------------------------------------------------------------------
(* Properties of handlers that call the bus *)

\* a publish call that has taken its snapshot
Started(pr) == pr.st \notin {"new", "refused"}

\* C13: what a publish call invokes is fixed when it takes its snapshot: the
\* snapshot holds only subscriptions registered before it was taken and no
\* later step changes it, whatever is subscribed or removed meanwhile; the
\* call invokes subscriptions of that snapshot only and, when it returns, it
\* has invoked exactly the matching ones.
C13_DispatchFixedAtStart ==
  [][\A p \in 1..Len(pubs') :
       Started(pubs'[p]) =>
         /\ \A k \in 1..Len(pubs'[p].snap) : pubs'[p].snap[k].id <= pubs'[p].n0
         /\ (p <= Len(pubs) /\ Started(pubs[p])) => pubs'[p].snap = pubs[p].snap
         /\ \A k \in 1..Len(pubs'[p].inv) :
              \E j \in 1..Len(pubs'[p].snap) : pubs'[p].snap[j].id = pubs'[p].inv[k]
         /\ pubs'[p].st = "done" => pubs'[p].inv = MatchingIds(pubs'[p].snap, pubs'[p].ev)]_vars

\* C13, reached: a publish of 'a.b' has returned; one of its handlers
\* subscribed to 'a.*' meanwhile, so that the list then held one matching
\* subscription more than the snapshot, and the call invoked the matching
\* subscriptions of its snapshot and not the new one.
C13_Witness ==
  \E p \in 1..Len(pubs) :
    /\ pubs[p].st = "done"
    /\ pubs[p].ev = E_ab
    /\ \E k \in 1..Len(pubs[p].made) :
         /\ pubs[p].made[k].pat = P_aStar
         /\ \E j \in 1..Len(handlers) : handlers[j].id = pubs[p].made[k].id
         /\ \A j \in 1..Len(pubs[p].inv) : pubs[p].inv[j] # pubs[p].made[k].id
    /\ Len(pubs[p].inv) = 2
    /\ pubs[p].inv = MatchingIds(pubs[p].snap, pubs[p].ev)

\* the publish call pr has invoked the subscription with registration number id
HasInvoked(pr, id) == \E k \in 1..Len(pr.inv) : pr.inv[k] = id

\* C14: a subscription that a handler registers during a dispatch is not
\* invoked by that dispatch, and every publish call of a matching event that
\* took its snapshot after the registration has invoked it when it returns
\* (a once-subscription: unless another call invoked it).
C14_VisibleToLaterPublishes ==
  \A p \in 1..Len(pubs) :
    \A k \in 1..Len(pubs[p].made) :
      LET sub == pubs[p].made[k] IN
      /\ ~HasInvoked(pubs[p], sub.id)
      /\ \A q \in 1..Len(pubs) :
           (pubs[q].st = "done" /\ pubs[q].n0 >= sub.id /\ FnMatch(pubs[q].ev, sub.pat)) =>
             \/ HasInvoked(pubs[q], sub.id)
             \/ sub.once /\ \E q2 \in 1..Len(pubs) : HasInvoked(pubs[q2], sub.id)

\* the subscriptions of a list that have registration number id
Present(hs, id) == \E k \in 1..Len(hs) : hs[k].id = id

\* the once-subscriptions a publish call has invoked
OnceInvoked(pr) == {pr.inv[k] : k \in {j \in 1..Len(pr.inv) : SubOf(pr.snap, pr.inv[j]).once}}

\* C15: when a publish call has returned, no once-subscription it invoked is
\* in the subscription list, and no publish call that takes its snapshot
\* afterwards holds one in its snapshot or invokes one.
C15_OnceGoneOnReturn ==
  [][\A p \in 1..Len(pubs') :
       pubs'[p].st = "done" =>
         \A id \in OnceInvoked(pubs'[p]) :
           /\ ~Present(handlers', id)
           /\ (p <= Len(pubs) /\ pubs[p].st = "done") =>
                \A q \in 1..Len(pubs') :
                  (q > Len(pubs) \/ ~Started(pubs[q])) =>
                    ~Present(pubs'[q].snap, id) /\ ~HasInvoked(pubs'[q], id)]_vars

\* C15, reached: a publish of 'a.b' invoked a once-subscription and returned;
\* a second publish of 'a.b', started afterwards, has returned too and has
\* invoked only the other subscription, which is not a once-subscription.
C15_Witness ==
  /\ Len(pubs) = 2
  /\ pubs[1].st = "done" /\ pubs[2].st = "done"
  /\ pubs[1].n0 = 2 /\ pubs[2].n0 = 2
  /\ Len(pubs[1].inv) = 2
  /\ OnceInvoked(pubs[1]) # {}
  /\ Len(pubs[2].snap) = 1
  /\ Len(pubs[2].inv) = 1
  /\ ~pubs[2].snap[1].once

\* C25: the subscriptions missing from the list are exactly the
\* once-subscriptions invoked by a publish call that has reached its removal
\* step: every other subscription ever registered is still in the list,
\* whatever pattern and handler it shares with a removed one.
C25_RemovesOnlyInvokedOnce ==
  \A id \in 1..nsub :
    ~Present(handlers, id) <=>
      \E p \in 1..Len(pubs) :
        /\ pubs[p].st \in {"done", "raised"}
        /\ Present(pubs[p].snap, id)
        /\ id \in OnceInvoked(pubs[p])

\* how often the publish call pr has invoked the subscription numbered id
TimesInvoked(pr, id) == Cardinality({k \in 1..Len(pr.inv) : pr.inv[k] = id})

\* C16: an awaited publish takes the subscription list as it is when the call
\* is made; when it has returned, it has invoked each subscription of that
\* list whose pattern matches the event name exactly once and no other, each
\* with the payload of the call.
C16_MatchingInvokedOnce ==
  [][\A p \in 1..Len(pubs') :
       /\ p > Len(pubs) => pubs'[p].snap = handlers
       /\ pubs'[p].st = "done" =>
            /\ \A k \in 1..Len(pubs'[p].snap) :
                 TimesInvoked(pubs'[p], pubs'[p].snap[k].id) =
                   IF FnMatch(pubs'[p].ev, pubs'[p].snap[k].pat) THEN 1 ELSE 0
            /\ \A k \in 1..Len(pubs'[p].inv) : Present(pubs'[p].snap, pubs'[p].inv[k])
            /\ \A k \in 1..Len(pubs'[p].args) : pubs'[p].args[k] = pubs'[p].payload]_vars

\* C16, reached: 'a.*' and 'a.c' were subscribed; a publish of 'a.b' has
\* returned and has invoked the 'a.*' subscription, once, and not the other.
C16_Witness ==
  \E p \in 1..Len(pubs) :
    /\ pubs[p].st = "done"
    /\ pubs[p].ev = E_ab
    /\ Len(pubs[p].snap) = 2
    /\ \E i, j \in 1..2 :
         /\ pubs[p].snap[i].pat = P_aStar /\ pubs[p].snap[j].pat = E_ac
         /\ pubs[p].inv = <<pubs[p].snap[i].id>>
         /\ pubs[p].args = <<pubs[p].payload>>

-----------------------------------------------------------------------------
(* Properties of the correlation identifiers *)

\* C17: two request() calls that are outstanding at the same time have
\* different correlation identifiers.
C17_DistinctCorrelationIds ==
  \A r1, r2 \in 1..Len(reqs) :
    (r1 # r2 /\ reqs[r1].st = "await" /\ reqs[r2].st = "await") =>
      reqs[r1].cid # reqs[r2].cid

-----------------------------------------------------------------------------
(* Properties of the supervised loops under faults *)

\* C18: a fault caught by a loop's `except Exception` does not end the loop:
\* unless the stop event is set, the step in which it is raised ends with the
\* loop suspended in its next sleep; a task whose cancellation was requested
\* ends in the first step it takes, and it does take that step.
C18_FaultContinuesCancelEnds ==
  /\ [][\A l \in 1..Len(loops) :
          /\ (loops'[l].flt > loops[l].flt /\ ~stop) => loops'[l].st = "sleeping"
          /\ (loops[l].cancel /\ loops'[l] # loops[l]) => Terminated(loops'[l])]_vars
  /\ \A l \in 1..3 : (l <= Len(loops) /\ loops[l].cancel)
                        ~> (l <= Len(loops) /\ Terminated(loops[l]))

\* C18, reached: memory.prune raised in the maintenance loop and
\* memory.get_pending_tasks raised in the decision loop, both loops went to
\* sleep again, and shutdown() cancelled them there: they have ended.
C18_Witness ==
  /\ \E l \in 1..Len(loops) :
       /\ loops[l].kind = "memory" /\ loops[l].flt = 1
       /\ loops[l].cst = "sleeping" /\ loops[l].st = "done"
  /\ \E l \in 1..Len(loops) :
       /\ loops[l].kind = "decision" /\ loops[l].flt = 1
       /\ loops[l].cst = "sleeping" /\ loops[l].st = "done"

-----------------------------------------------------------------------------
(* Properties of an engine that was shut down *)

\* C19: the stop event, once set, stays set, and a loop task that has not
\* taken its first step when the event is set never iterates: it makes no
\* memory call and publishes nothing, and the step it takes ends it.  So the
\* tasks created by an initialize() that follows a shutdown() do nothing.
C19_NoRestartAfterShutdown ==
  [][/\ stop => stop'
     /\ \A l \in 1..Len(loops') :
          (stop' /\ (l > Len(loops) \/ loops[l].st = "new")) =>
            /\ loops'[l].fx = 0
            /\ loops'[l].st \in {"new", "done", "cancelled"}
            /\ \A p \in 1..Len(pubs') : pubs'[p].src # l]_vars

\* C19, reached: the engine was initialized and shut down; shutdown()
\* returned and initialize() was called again; the three tasks it created
\* have run and have ended at their first test of the stop event, without a
\* memory call or a publish.
C19_Witness ==
  /\ eng.inits = 2
  /\ eng.shutdowns = 1
  /\ sd.st = "returned"
  /\ Len(loops) = 6
  /\ \E l \in 1..3 : loops[l].fx > 0
  /\ \A l \in 4..6 :
       /\ loops[l].st = "done" /\ loops[l].cst = "none" /\ loops[l].fx = 0
       /\ \A p \in 1..Len(pubs) : pubs[p].src # l

-----------------------------------------------------------------------------
(* Properties of re-entrant calls *)

\* every publish call made so far has returned
AllReturned == \A p \in 1..Len(pubs) : pubs[p].st = "done"

\* the handler of the k-th subscription that publish call pr invoked
InvokedHandler(pr, k) == SubOf(pr.snap, pr.inv[k]).h

\* C20: no publish call and no handler ever waits for the lock of the bus,
\* whatever the handlers call on the bus while they are dispatched, and, the
\* suspended handlers being resumed and the queued calls being run, every
\* publish call returns.
C20_ReentrantCallsComplete ==
  /\ [](\A p \in 1..Len(pubs) : pubs[p].st # "blocked")
  /\ []<>AllReturned

\* C20, reached: a publish of 'a.b' has returned after one of its handlers
\* subscribed to 'x.d' and another awaited a publish of 'x.d'; that nested
\* call invoked the new subscription and returned into the handler.
C20_Witness ==
  \E p, q \in 1..Len(pubs) :
    /\ pubs[p].st = "done" /\ pubs[p].ev = E_ab
    /\ Len(pubs[p].inv) = 2
    /\ Kind(InvokedHandler(pubs[p], 1)) = "sub"
    /\ Kind(InvokedHandler(pubs[p], 2)) = "pub"
    /\ Len(pubs[p].made) = 1
    /\ pubs[q].par = p /\ pubs[q].st = "done"
    /\ pubs[q].inv = <<pubs[p].made[1].id>>

-----------------------------------------------------------------------------
(* Properties of a wait that has ended *)

\* the checker of wait_for call w was invoked by publish call pr
CheckerInvoked(pr, w) ==
  \E k \in 1..Len(pr.inv) : SubOf(pr.snap, pr.inv[k]).h = <<"chk", w>>

\* C21: the future of a wait_for call, once it has a result or is cancelled
\* by the timeout, never changes again, whatever events follow; a result is
\* the payload of a publish call of a matching event that invoked the checker
\* and that the predicate accepts; and no publish call ends with a fault.
C21_ResolvedAtMostOnce ==
  [][/\ \A w \in 1..Len(waits) :
          waits[w].fut # "pending" =>
            waits'[w].fut = waits[w].fut /\ waits'[w].res = waits[w].res
     /\ \A w \in 1..Len(waits') :
          waits'[w].fut = "result" =>
            /\ Condition(waits'[w].cond, waits'[w].res)
            /\ \E p \in 1..Len(pubs') :
                 /\ FnMatch(pubs'[p].ev, waits'[w].ev)
                 /\ pubs'[p].payload = waits'[w].res
                 /\ CheckerInvoked(pubs'[p], w)
     /\ \A p \in 1..Len(pubs') : pubs'[p].st # "raised"]_vars

\* C21, reached: a wait for 'x.d' was resolved by one publish call, and a
\* second publish call of 'x.d', with another payload the predicate accepts,
\* invoked the checker afterwards and has returned: the result is the first.
C21_Witness ==
  \E w \in 1..Len(waits), p, q \in 1..Len(pubs) :
    /\ p # q
    /\ waits[w].st = "result"
    /\ waits[w].res = pubs[p].payload
    /\ pubs[q].payload # pubs[p].payload
    /\ Condition(waits[w].cond, pubs[q].payload)
    /\ CheckerInvoked(pubs[p], w) /\ CheckerInvoked(pubs[q], w)
    /\ pubs[p].st = "done" /\ pubs[q].st = "done"

-----------------------------------------------------------------------------
(* Properties of the container *)

\* two get calls of one type with no bind or clear of it in between
SameBinding(g, h) == g.t = h.t /\ g.ep = h.ep

\* C22: of the get calls of a type between two bind or clear calls, under a
\* singleton binding all that return give the instance the first of them
\* made, and none calls the factory once one has returned; under a transient
\* binding each calls the factory, and each that returns gives an instance no
\* earlier get has given.
C22_ScopeHonoured ==
  \A j \in 1..Len(di.gets) :
    LET h == di.gets[j] IN
    /\ h.scope = "singleton" =>
         \A i \in 1..(j - 1) :
           (SameBinding(di.gets[i], h) /\ di.gets[i].r = "returned") =>
             /\ ~h.called
             /\ h.r = "returned"
             /\ h.inst = di.gets[i].inst
    /\ h.scope = "transient" =>
         /\ h.called
         /\ h.r = "returned" => \A i \in 1..(j - 1) : di.gets[i].inst # h.inst

\* C22, reached: two gets of a singleton gave the same instance, the factory
\* having been called by the first only; the type was then bound as
\* transient, and two gets gave two other instances.
C22_Witness ==
  \E i, j, k, l \in 1..Len(di.gets) :
    /\ i < j /\ j < k /\ k < l
    /\ SameBinding(di.gets[i], di.gets[j]) /\ SameBinding(di.gets[k], di.gets[l])
    /\ di.gets[i].scope = "singleton" /\ di.gets[k].scope = "transient"
    /\ di.gets[i].called /\ ~di.gets[j].called
    /\ di.gets[i].inst # 0 /\ di.gets[j].inst = di.gets[i].inst
    /\ di.gets[k].inst > di.gets[i].inst /\ di.gets[l].inst > di.gets[k].inst

\* whether the tokens of `part` occur, in order and adjacent, in `text`
Contains(text, part) ==
  \E i \in 0..Len(text) :
    /\ i + Len(part) <= Len(text)
    /\ \A j \in 1..Len(part) : text[i + j] = part[j]

\* C23: a retrieve_context call with limit_tokens = L returns a text of at
\* most L tokens, the empty text when the most recent interaction alone is
\* longer than L; a call without a limit on a non-empty store returns a text
\* that contains the prompt and the response of a stored interaction.
C23_ContextWithinLimit ==
  \A i \in 1..Len(mem.got) :
    LET g == mem.got[i]
    IN /\ \A L \in g.limit :
            /\ Len(g.text) <= L
            /\ (g.rows # <<>> /\ Len(Lines(g.rows[Len(g.rows)])) > L) => g.text = <<>>
       /\ (g.limit = {} /\ g.rows # <<>>) =>
            \E r \in 1..Len(g.rows) :
              Contains(g.text, g.rows[r].prompt) /\ Contains(g.text, g.rows[r].response)

\* C27: every iteration of a supervised loop suspends: whenever the event
\* loop is between two steps, a loop task has suspended at least as many times
\* as it has begun iterations of its `while`.
C27_EveryIterationSuspends ==
  \A l \in 1..Len(loops) : loops[l].its <= loops[l].sus

\* C29: in the step in which a shutdown() call returns, every loop task that
\* any initialize() call has created has ended.
C29_AllLoopTasksEnded ==
  [][(sd.st # "returned" /\ sd'.st = "returned") =>
       \A l \in 1..Len(loops') : Terminated(loops'[l])]_vars

-----------------------------------------------------------------------------
(* Properties of the request handler *)

\* the publish calls of a terminal event of kind evs that carry the cid
Terminal(evs, cid) ==
  {q \in 1..Len(pubs) :
     pubs[q].ev \in evs /\ pubs[q].payload.cid = cid /\ pubs[q].st # "refused"}

\* C26: when the publish call of a request's event has returned and the model
\* returned its output to the infer call of the request handler, the handler
\* has published consciousness.response with the cid of the request; and the
\* request does not end with TimeoutError once that response has been
\* accepted by its wait.
C26_RequestAnswered ==
  \A r \in 1..Len(reqs) :
    LET pr == pubs[reqs[r].p] IN
    /\ (pr.st = "done" /\ \E k \in 1..Len(pr.outs) : pr.outs[k].ok) =>
         Terminal({E_response}, reqs[r].cid) # {}
    /\ (reqs[r].st = "timeout") => waits[reqs[r].w].fut # "result"

\* C28: when the publish call of a request event has returned, having invoked
\* the engine's handler, exactly one terminal event with the cid of the request
\* has been published, and at no time more than one.
C28_OneTerminalEvent ==
  \A p \in 1..Len(pubs) :
    (pubs[p].ev = E_request /\ \E k \in 1..Len(pubs[p].snap) : Kind(pubs[p].snap[k].h) = "onreq") =>
      /\ Cardinality(Terminal({E_response, E_error}, pubs[p].payload.cid)) <= 1
      /\ pubs[p].st = "done" =>
           Cardinality(Terminal({E_response, E_error}, pubs[p].payload.cid)) = 1

-----------------------------------------------------------------------------
(* Properties of the model manager *)

\* C24: a hot_swap call that raises has removed nothing from the loaded
\* models, a hot_swap call that returns leaves load_name loaded, and between
\* the sections of a hot_swap call that has unloaded unload_name, when other
\* threads can take the lock, load_name is loaded.
C24_HotSwapAtomic ==
  \A i \in 1..Len(mm.calls) :
    LET c == mm.calls[i]
    IN c.op = "hot_swap" =>
         /\ (c.pc = "done" /\ c.r = "returned") => c.b \in c.seen
         /\ (c.pc = "done" /\ c.r # "returned") => ~c.popped
         /\ (c.pc \in {"load", "store"} /\ c.popped) => c.b \in mm.models

\* C30: the model "default" is loaded in every state, and every infer call
\* with the name "default" made where publish_nowait can queue its task returns.
C30_DefaultAlwaysLoaded ==
  /\ "default" \in mm.models
  /\ \A i \in 1..Len(mm.calls) :
       LET c == mm.calls[i]
       IN (c.op = "infer" /\ c.b = "default" /\ c.pc = "done" /\ RunningLoop(c.ctx)) =>
            c.r = "returned"


=============================================================================
